---- MODULE Spec2Model ----
(***************************************************************************)
(* A model of the cart / checkout / payment state machine of the shop bot. *)
(*                                                                         *)
(* The store (MySQL) is the shared state.  Every db.execute_query call is  *)
(* synchronous, so a handler runs atomically from one `await` of a chat or *)
(* network call to the next; each action below is one such segment.  A     *)
(* handler that is suspended at an `await` is a record in `tasks`, holding *)
(* the local variables (stale snapshots of rows) it resumes with.          *)
(*                                                                         *)
(* Money is counted in units of $0.50.                                     *)
(***************************************************************************)
EXTENDS Integers, Sequences, FiniteSets, TLC

\* ---------------------------------------------------------------- bounds
NumUsers    == 2      \* buyers
NumItems    == 1      \* catalog items
MaxCarts    == 2      \* cart rows ever inserted
MaxTasks    == 2      \* handlers suspended at an await at the same time
MaxPayments == 3      \* gateway orders ever created
MaxViews    == 1      \* open coin-selection views per cart
InitStock   == 1      \* quantity-on-hand of every item at the start
InitBalance == 4      \* store credit of every user at the start
MaxQty      == 1      \* largest quantity typed into the quantity modal
MaxAmount   == 3      \* largest amount typed into the credit modal
MaxStock    == 2      \* cap on |quantity-on-hand| and on |line quantity|
MaxMoney    == 6      \* cap on |balance|, |credit_applied| and lifetime_spent
MaxEvents   == 2      \* cap on purchase events per user and item, completions per cart
Price       == 2      \* price of every catalog item (in units of $0.50)
MaxPrice    == 3      \* largest price an item is given by an edit of the catalog
MaxRestock  == 1      \* largest quantity of a restock
NumRoles    == 2      \* roles that can be made a tier
MaxEvals    == 1      \* check_and_apply_roles calls in flight
MaxRequired == 2      \* largest amount_required of a tier
MaxGiveaways == 3     \* rows of the giveaways table
MaxDelivered == 4     \* largest delivery_value_handled of an agent
MaxTickets  == 3      \* rows of the tickets table

\* ------------------------------------------------------ program constants
Prize == 1            \* GIVEAWAY_CREDIT_PRIZE
PurchaseMinimum == 1  \* SHOP_PURCHASE_MINIMUM, "0.50"

Users      == 1..NumUsers
Items      == 1..NumItems
Quantities == (0 - 1)..MaxQty
Amounts    == (0 - 1)..MaxAmount

VARIABLES
  items,        \* items table: item id -> [quantity, price]
  carts,        \* carts table: sequence of rows, the row's id is its index
  users,        \* users table: user id -> [exists, balance, lifetime_spent,
                \* delivery_value_handled]
  analytics,    \* analytics table: <<user, item>> -> number of 'purchase' rows
  orders,       \* the gateway's orders: payment id -> [status, amount, cart]
  coin_views,   \* cart id -> open CryptoCoinSelectionView instances
  buttons,      \* cart id -> the controls of its crypto invoice message are enabled
  tasks,        \* slot -> handler suspended at an await (or Idle)
  poll,         \* the check_pending_payments loop: [pc, list]
  completions,  \* history: cart id -> number of process_paid_order runs
  shop_status,  \* settings row 'shop_status'
  skipped,      \* the pending carts on which the step just taken called
                \* cancel_invoice and the call returned without its UPDATE
  paypal_handler, \* the PayPalPayment adapter and the outcome of its last call
  response,     \* the page the web server served last
  role_tiers,   \* role_tiers table: role id -> amount_required (NoTier: no row)
  member_roles, \* guild member -> the roles the member holds
  evals,        \* the check_and_apply_roles calls suspended at an await
  giveaways,    \* giveaways table: sequence of rows [status, expired]
  giveaway_entrants, \* giveaway_entrants table: rows <<giveaway_id, user_id>>
  manager,      \* the giveaway_manager loop: [pc, giveaway, last]
  giveaway_channel, \* the giveaway channel is in the bot's channel cache
  tickets,      \* tickets table: sequence of rows [user_id, status]
  status_update, \* the cog's debounce of the status channel's rename
  channel_name  \* the status the name of the status channel shows

vars == <<items, carts, users, analytics, orders, coin_views, buttons, tasks, poll,
         completions, shop_status, skipped, paypal_handler, response, role_tiers,
         member_roles, evals, giveaways, giveaway_entrants, manager, giveaway_channel,
         tickets, status_update, channel_name>>

\* ---------------------------------------------------------------- helpers
Min(a, b) == IF a < b THEN a ELSE b

EmptyCart == [i \in {} |-> [quantity |-> 0, price |-> 0]]

RECURSIVE SumOver(_, _)
SumOver(f, S) ==
  IF S = {} THEN 0
  ELSE LET x == CHOOSE y \in S : TRUE
       IN  f[x].quantity * f[x].price + SumOver(f, S \ {x})

\* total_price = sum(i['quantity'] * i['price'] for i in cart.values())
TotalPrice(cart) == SumOver(cart, DOMAIN cart)

\* the row INSERT INTO carts (user_id, cart_data, last_activity) creates
NewCart(id, u) ==
  [id |-> id, user_id |-> u, channel_id |-> 0, cart_data |-> EmptyCart, message_id |-> 0,
   invoice_message_id |-> 0, payment_id |-> 0, credit_applied |-> 0,
   status |-> "active", payment_method |-> "NULL"]

CartIds == DOMAIN carts

Idle ==
  [kind |-> "idle", pc |-> "idle", cart |-> 0, item |-> 0, qty |-> 0, add |-> FALSE,
   stock |-> 0, price |-> 0, snap |-> NewCart(0, 0), lines |-> EmptyCart, credit |-> 0,
   next |-> "done", agent |-> 0]

\* the handlers a run may have suspended at the same time, fixed by the
\* initial state
Slots == DOMAIN tasks
FreeSlots == {t \in Slots : tasks[t].kind = "idle"}
HasSlot == FreeSlots # {}
\* a new handler takes the lowest free slot
Slot == CHOOSE t \in FreeSlots : \A s \in FreeSlots : t <= s

\* the caps that keep the counters of the model finite
Bounded ==
  /\ \A i \in Items : items[i].quantity \in (0 - MaxStock)..MaxStock
  /\ \A u \in Users : /\ users[u].balance \in (0 - MaxMoney)..MaxMoney
                      /\ users[u].lifetime_spent \in (0 - MaxMoney)..MaxMoney
  /\ \A c \in CartIds :
       /\ carts[c].credit_applied \in (0 - MaxMoney)..MaxMoney
       /\ \A i \in DOMAIN carts[c].cart_data :
            carts[c].cart_data[i].quantity \in (0 - MaxStock)..MaxStock
  /\ \A u \in Users, i \in Items : analytics[<<u, i>>] <= MaxEvents
  /\ \A c \in DOMAIN completions : completions[c] <= MaxEvents

\* the adapter after __init__: client id and secret read from the environment
\* (configured) or not, no access token; `op`, `credential`, `reply` and `result`
\* record the last call, the replies it got and what it gave back
Adapter(configured) ==
  [configured |-> configured, token |-> FALSE, op |-> "none", credential |-> "none",
   reply |-> "none", result |-> "none"]

NoCall == Adapter(TRUE)

\* ---------------------------------------------------------- cancel_invoice
\* an UPDATE that reopens the cart and keeps its payment fields
CancelUpdateStatusOnly(cs, c) ==
  IF c \in DOMAIN cs
  THEN [cs EXCEPT ![c].invoice_message_id = 0, ![c].status = "active"]
  ELSE cs

\* UPDATE carts SET invoice_message_id = NULL, payment_id = NULL,
\*   payment_method = NULL, status = 'active' WHERE id = %s
CancelUpdate(cs, c) ==
  IF c \in DOMAIN cs
  THEN [cs EXCEPT ![c].invoice_message_id = 0, ![c].payment_id = 0,
                  ![c].payment_method = "NULL", ![c].status = "active"]
  ELSE cs

\* ------------------------------------------------- ShopItemView: add/remove
\* the cart dictionary after lines 439-445
NewLines(cart, i, quantity, add, price) ==
  IF add
  THEN LET old == IF i \in DOMAIN cart THEN cart[i].quantity ELSE 0
       IN  [j \in DOMAIN cart \cup {i} |->
              IF j = i THEN [quantity |-> old + quantity, price |-> price] ELSE cart[j]]
  ELSE IF i \in DOMAIN cart
       THEN IF cart[i].quantity - quantity <= 0
            THEN [j \in DOMAIN cart \ {i} |-> cart[j]]
            ELSE [cart EXCEPT ![i].quantity = @ - quantity]
       ELSE cart

\* the stock check of an add: `not item or item['quantity'] < quantity`
InsufficientStock(stock, quantity) == stock < quantity

\* the stock UPDATE of lines 427 and 432
StockAfter(stock, quantity, add) == IF add THEN stock - quantity ELSE stock + quantity

\* lines 423-458 up to the first await, for the handler in slot t, with the
\* cart row `snap` (id c) and the item row (`stock`, `price`) read earlier
CartActionBody(t, c, snap, stock, price, i, quantity, add, cs) ==
  IF add /\ InsufficientStock(stock, quantity)
  THEN /\ tasks' = [tasks EXCEPT ![t] = Idle]
       /\ carts' = cs
       /\ UNCHANGED items
  ELSE /\ items' = [items EXCEPT ![i].quantity = StockAfter(@, quantity, add)]
       /\ carts' = cs
       /\ IF snap.channel_id = 0
          THEN \* cart_channel is None: the send / fetch_message raises
               tasks' = [tasks EXCEPT ![t] = Idle]
          ELSE IF snap.invoice_message_id # 0
          THEN tasks' = [tasks EXCEPT ![t] =
                 [Idle EXCEPT !.kind = "cart_action", !.pc = "cancel", !.next = "render",
                              !.cart = c,
                              !.lines = NewLines(snap.cart_data, i, quantity, add,
                                                 price)]]
          ELSE tasks' = [tasks EXCEPT ![t] =
                 [Idle EXCEPT !.kind = "cart_action", !.pc = "render", !.cart = c,
                              !.lines = NewLines(snap.cart_data, i, quantity, add,
                                                 price)]]

\* the rows `SELECT * FROM carts WHERE user_id = %s AND status = 'active'` matches
CartLookup(u) == {c \in CartIds : carts[c].user_id = u /\ carts[c].status = "active"}

\* handle_cart_action from the submitted modal to the first await
handle_cart_action(u, i, quantity, add) ==
  /\ HasSlot
  /\ IF CartLookup(u) = {}
     THEN /\ Len(carts) + 1 \in DOMAIN completions
          /\ carts' = Append(carts, NewCart(Len(carts) + 1, u))
          /\ tasks' = [tasks EXCEPT ![Slot] =
               [Idle EXCEPT !.kind = "cart_action", !.pc = "channel",
                            !.cart = Len(carts) + 1, !.item = i, !.qty = quantity,
                            !.add = add, !.stock = items[i].quantity,
                            !.price = items[i].price]]
          /\ UNCHANGED items
     ELSE \E c \in CartLookup(u) :
            CartActionBody(Slot, c, carts[c], items[i].quantity, items[i].price, i,
                           quantity, add, carts)
  /\ UNCHANGED <<users, analytics, orders, coin_views, buttons, poll, completions>>
  /\ Bounded'
  /\ skipped' = {}
  /\ UNCHANGED <<shop_status, paypal_handler>>
  /\ UNCHANGED <<evals, response, role_tiers, member_roles, giveaways, giveaway_entrants, manager,
                 giveaway_channel, tickets, status_update, channel_name>>

\* the cart channel was created: lines 417-458 up to the next await
CartActionChannel(t) ==
  /\ tasks[t].kind = "cart_action" /\ tasks[t].pc = "channel"
  /\ LET c  == tasks[t].cart
         cs == [carts EXCEPT ![c].channel_id = 1]
     IN  CartActionBody(t, c, cs[c], tasks[t].stock, tasks[t].price, tasks[t].item,
                        tasks[t].qty, tasks[t].add, cs)
  /\ UNCHANGED <<users, analytics, orders, coin_views, buttons, poll, completions>>
  /\ Bounded'
  /\ skipped' = {}
  /\ UNCHANGED <<shop_status, paypal_handler>>
  /\ UNCHANGED <<evals, response, role_tiers, member_roles, giveaways, giveaway_entrants, manager,
                 giveaway_channel, tickets, status_update, channel_name>>

\* the cart message was sent or fetched: the UPDATE of line 454 or 458
CartActionRender(t) ==
  /\ tasks[t].kind = "cart_action" /\ tasks[t].pc = "render"
  /\ carts' = [carts EXCEPT ![tasks[t].cart].cart_data = tasks[t].lines,
                            ![tasks[t].cart].message_id = 1]
  /\ tasks' = [tasks EXCEPT ![t] = Idle]
  /\ UNCHANGED <<items, users, analytics, orders, coin_views, buttons, poll, completions>>
  /\ Bounded'
  /\ skipped' = {}
  /\ UNCHANGED <<shop_status, paypal_handler>>
  /\ UNCHANGED <<evals, response, role_tiers, member_roles, giveaways, giveaway_entrants, manager,
                 giveaway_channel, tickets, status_update, channel_name>>


\* ------------------------------------------------------- process_paid_order
\* real_money_spent = total_price - credit_spent
RealMoneySpent(cart_data, credit_spent) == TotalPrice(cart_data.cart_data) - credit_spent

\* INSERT INTO users (id, lifetime_spent) ... ON DUPLICATE KEY UPDATE
\*   lifetime_spent = lifetime_spent + %s
LifetimeUpsert(us, u, amount) ==
  IF u \notin DOMAIN us THEN us
  ELSE IF us[u].exists
  THEN [us EXCEPT ![u].lifetime_spent = @ + amount]
  ELSE [us EXCEPT ![u] = [exists |-> TRUE, balance |-> 0, lifetime_spent |-> amount,
                         delivery_value_handled |-> 0]]

\* UPDATE carts SET status = 'paid' WHERE id = %s
MarkPaid(cs, c) == IF c \in DOMAIN cs THEN [cs EXCEPT ![c].status = "paid"] ELSE cs

\* ------------------------------------------------------------- role tiers
Roles == 1..NumRoles
EvalSlots == 1..MaxEvals

\* role_tiers holds no row for the role
NoTier == 0 - 1

\* the roles role_tiers holds a row for
Configured(rt) == {r \in Roles : rt[r] # NoTier}

\* SELECT * FROM role_tiers ORDER BY amount_required ASC: the rows in an order
\* of ascending amount_required, rows of equal amount in either order
TierRows(rt) ==
  LET n == Cardinality(Configured(rt))
  IN  {[k \in 1..n |-> [role_id |-> p[k], amount_required |-> rt[p[k]]]] :
         p \in {q \in [1..n -> Configured(rt)] :
                  /\ \A i, j \in 1..n : i # j => q[i] # q[j]
                  /\ \A i, j \in 1..n : i < j => rt[q[i]] <= rt[q[j]]}}

\* no check_and_apply_roles call is suspended in the slot
NoEval == [version |-> "none", pc |-> "idle", user_id |-> 0, lifetime_spent |-> 0,
           role_tiers |-> <<>>, k |-> 0, member |-> {}]

HasEvalSlot == \E s \in EvalSlots : evals[s] = NoEval
EvalSlot == CHOOSE s \in EvalSlots : evals[s] = NoEval /\ \A r \in EvalSlots : evals[r] = NoEval => s <= r

\* the comparison of the loop with the equal case left out
QualifiesAbove(lifetime_spent, tier) == lifetime_spent > tier.amount_required

\* `lifetime_spent >= tier['amount_required']`
Qualifies(lifetime_spent, tier) == lifetime_spent >= tier.amount_required

\* the loop over the tiers from index k + 1 to its next await: the next tier
\* whose threshold is met and whose role is not in member.roles (add_roles is
\* awaited for it); the call returns if there is none
Advance(e, k) ==
  LET S == {j \in (k + 1)..Len(e.role_tiers) :
              /\ Qualifies(e.lifetime_spent, e.role_tiers[j])
              /\ e.role_tiers[j].role_id \notin e.member}
  IN  IF S = {} THEN NoEval
      ELSE [e EXCEPT !.pc = "add_roles", !.k = CHOOSE j \in S : \A i \in S : j <= i]

\* views.check_and_apply_roles(guild, user_id), up to `await guild.fetch_member`:
\* the lifetime spend is read from the row process_paid_order has just written;
\* fetch_member raises NotFound for a user who is not a member of the guild
check_and_apply_roles(user_id) ==
  IF user_id \notin DOMAIN member_roles
  THEN evals' = evals
  ELSE /\ HasEvalSlot
       /\ evals' = [evals EXCEPT ![EvalSlot] =
            [NoEval EXCEPT !.version = "views", !.pc = "fetch_member", !.user_id = user_id,
                           !.lifetime_spent = users'[user_id].lifetime_spent]]

\* lines 331-341, on the row `cart_data` the caller read: no look at the row's
\* current status
process_paid_order(cart_data, credit_spent) ==
  /\ users' = LifetimeUpsert(users, cart_data.user_id,
                             RealMoneySpent(cart_data, credit_spent))
  /\ carts' = MarkPaid(carts, cart_data.id)
  /\ analytics' = [p \in DOMAIN analytics |->
       IF p[1] = cart_data.user_id /\ p[2] \in DOMAIN cart_data.cart_data
       THEN analytics[p] + 1 ELSE analytics[p]]
  /\ completions' = [completions EXCEPT ![cart_data.id] = @ + 1]
  /\ check_and_apply_roles(cart_data.user_id)

\* -------------------------------------------------- CartView: apply_credit
\* the check without its comparison of the amount with the balance
CreditRejectedNoBalance(user_data, amount_to_apply) == ~user_data.exists

\* `not user_data or amount_to_apply > user_data['balance']`
CreditRejected(user_data, amount_to_apply) ==
  ~user_data.exists \/ amount_to_apply > user_data.balance

\* credit_to_apply = min(amount_to_apply, total_price)
CreditToApply(amount_to_apply, total_price) == Min(amount_to_apply, total_price)

\* `total_price - credit_to_apply <= 0`
FullyCovered(total_price, credit_to_apply) == total_price - credit_to_apply <= 0

\* apply_credit from the submitted modal (amount typed by the cart's owner) to
\* the first await
apply_credit(c, amount_to_apply) ==
  /\ c \in CartIds /\ carts[c].message_id # 0
  /\ HasSlot
  /\ LET u      == carts[c].user_id
         total  == TotalPrice(carts[c].cart_data)
         credit == CreditToApply(amount_to_apply, total)
     IN  IF CreditRejected(users[u], amount_to_apply)
         THEN UNCHANGED <<users, carts, tasks>>
         ELSE /\ users' = [users EXCEPT ![u].balance = @ - credit]
              /\ carts' = [carts EXCEPT ![c].credit_applied = @ + credit]
              /\ IF FullyCovered(total, credit)
                 THEN tasks' = [tasks EXCEPT ![Slot] =
                        [Idle EXCEPT !.kind = "apply_credit", !.pc = "paid", !.cart = c,
                                     !.snap = carts[c], !.credit = credit]]
                 ELSE UNCHANGED tasks
  /\ UNCHANGED <<items, analytics, orders, coin_views, buttons, poll, completions>>
  /\ Bounded'
  /\ skipped' = {}
  /\ UNCHANGED <<shop_status, paypal_handler>>
  /\ UNCHANGED <<evals, response, role_tiers, member_roles, giveaways, giveaway_entrants, manager,
                 giveaway_channel, tickets, status_update, channel_name>>

\* the cart message was edited: process_paid_order(channel, cart_data, credit_to_apply)
ApplyCreditPaid(t) ==
  /\ tasks[t].kind = "apply_credit" /\ tasks[t].pc = "paid"
  /\ process_paid_order(tasks[t].snap, tasks[t].credit)
  /\ tasks' = [tasks EXCEPT ![t] = Idle]
  /\ UNCHANGED <<items, orders, coin_views, buttons, poll>>
  /\ Bounded'
  /\ skipped' = {}
  /\ UNCHANGED <<shop_status, paypal_handler>>
  /\ UNCHANGED <<response, role_tiers, member_roles, giveaways, giveaway_entrants, manager,
                 giveaway_channel, tickets, status_update, channel_name>>

\* ---------------------------------------------------- CartView: close_cart
\* UPDATE items SET quantity = quantity + %s WHERE id = %s, for every line
Restocked(its, cart) ==
  [i \in DOMAIN its |->
     IF i \in DOMAIN cart THEN [its[i] EXCEPT !.quantity = @ + cart[i].quantity]
     ELSE its[i]]

\* a close that gives no credit back
RefundedNothing(us, cart_data) == us

\* `if cart_data['credit_applied'] > 0: UPDATE users SET balance = balance + %s`
Refunded(us, cart_data) ==
  IF cart_data.credit_applied > 0 /\ cart_data.user_id \in DOMAIN us
     /\ us[cart_data.user_id].exists
  THEN [us EXCEPT ![cart_data.user_id].balance = @ + cart_data.credit_applied]
  ELSE us

\* close_cart up to the await of the channel edit
close_cart(c) ==
  /\ c \in CartIds /\ carts[c].message_id # 0
  /\ HasSlot
  /\ items' = Restocked(items, carts[c].cart_data)
  /\ users' = Refunded(users, carts[c])
  /\ tasks' = [tasks EXCEPT ![Slot] =
       [Idle EXCEPT !.kind = "close_cart", !.pc = "closing", !.cart = c]]
  /\ UNCHANGED <<carts, analytics, orders, coin_views, buttons, poll, completions>>
  /\ Bounded'
  /\ skipped' = {}
  /\ UNCHANGED <<shop_status, paypal_handler>>
  /\ UNCHANGED <<evals, response, role_tiers, member_roles, giveaways, giveaway_entrants, manager,
                 giveaway_channel, tickets, status_update, channel_name>>

\* the channel was archived: UPDATE carts SET status = 'closed'
CloseCartDone(t) ==
  /\ tasks[t].kind = "close_cart" /\ tasks[t].pc = "closing"
  /\ carts' = [carts EXCEPT ![tasks[t].cart].status = "closed"]
  /\ tasks' = [tasks EXCEPT ![t] = Idle]
  /\ UNCHANGED <<items, users, analytics, orders, coin_views, buttons, poll, completions>>
  /\ skipped' = {}
  /\ UNCHANGED <<shop_status, paypal_handler>>
  /\ UNCHANGED <<evals, response, role_tiers, member_roles, giveaways, giveaway_entrants, manager,
                 giveaway_channel, tickets, status_update, channel_name>>

\* ------------------------------------------- cancel_invoice, after its await
\* a handler suspended in cancel_invoice (fetching the invoice message to
\* delete it) resumes: the UPDATE of lines 36-39, then what its caller does next
CancelResume(t) ==
  /\ tasks[t].pc = "cancel"
  /\ carts' = CancelUpdate(carts, tasks[t].cart)
  /\ tasks' = [tasks EXCEPT ![t] =
       IF tasks[t].next = "done" THEN Idle ELSE [tasks[t] EXCEPT !.pc = tasks[t].next]]
  /\ UNCHANGED <<items, users, analytics, orders, coin_views, buttons, poll, completions>>
  /\ skipped' = {}
  /\ UNCHANGED <<shop_status, paypal_handler>>
  /\ UNCHANGED <<evals, response, role_tiers, member_roles, giveaways, giveaway_entrants, manager,
                 giveaway_channel, tickets, status_update, channel_name>>

\* The invoice message of a cart is one of two kinds; its id is modelled by the
\* view it carries: 1 = CancelInvoiceView (hosted link), 2 = CryptoConfirmationView.
HostedInvoice == 1
CryptoInvoice == 2

\* the cancel controls of the cart's invoice message, up to the await inside
\* cancel_invoice: CancelInvoiceView.cancel_transaction and
\* CryptoConfirmationView.cancel_payment (whose buttons are then disabled)
cancel_transaction(c) ==
  /\ c \in CartIds
  /\ \/ carts[c].invoice_message_id = HostedInvoice
     \/ carts[c].invoice_message_id = CryptoInvoice /\ buttons[c]
  /\ HasSlot
  /\ tasks' = [tasks EXCEPT ![Slot] =
       [Idle EXCEPT !.kind = "cancel", !.pc = "cancel", !.cart = c, !.next = "done"]]
  /\ buttons' = [buttons EXCEPT ![c] =
       IF carts[c].invoice_message_id = CryptoInvoice THEN FALSE ELSE @]
  /\ UNCHANGED <<items, carts, users, analytics, orders, coin_views, poll, completions>>
  /\ skipped' = {}
  /\ UNCHANGED <<shop_status, paypal_handler>>
  /\ UNCHANGED <<evals, response, role_tiers, member_roles, giveaways, giveaway_entrants, manager,
                 giveaway_channel, tickets, status_update, channel_name>>

\* ------------------------------------------- PaymentMethodView: the checkouts
\* the status checks of lines 239-244 (and 200-205)
CheckoutRefused(cart_data) ==
  cart_data.status \in {"paid", "completed", "closed", "pending_payment"}

\* `db.get_setting('shop_status') == 'closed' and not cart_data.get('payment_id')`
ShopClosedFor(cart_data) == shop_status = "closed" /\ cart_data.payment_id = 0

\* `db.get_setting('shop_status') == 'closed'`
ShopClosed == shop_status = "closed"

\* `total_price < purchase_minimum`
BelowMinimum(total_price) == total_price < PurchaseMinimum

\* lines 281-287: the gateway creates the order (or fails), the cart goes to
\* pending_payment; the handler then awaits the send of the invoice message
CreatePayment(t, c, total_price) ==
  /\ Len(orders) < MaxPayments
  /\ orders' = Append(orders, [status |-> "CREATED", amount |-> total_price, cart |-> c])
  /\ carts' = [carts EXCEPT ![c].payment_id = Len(orders) + 1,
                            ![c].payment_method = "paypal",
                            ![c].status = "pending_payment"]
  /\ tasks' = [tasks EXCEPT ![t] =
       [Idle EXCEPT !.kind = "checkout", !.pc = "invoice", !.cart = c]]

\* handle_checkout(interaction, 'paypal') from the deferred response to the
\* first await
handle_checkout(c) ==
  /\ c \in CartIds /\ carts[c].message_id # 0
  /\ HasSlot
  /\ ~CheckoutRefused(carts[c])
  /\ ~ShopClosedFor(carts[c])
  /\ ~BelowMinimum(TotalPrice(carts[c].cart_data))
  /\ IF carts[c].invoice_message_id # 0
     THEN /\ tasks' = [tasks EXCEPT ![Slot] =
               [Idle EXCEPT !.kind = "checkout", !.pc = "cancel", !.next = "create",
                            !.cart = c, !.snap = carts[c]]]
          /\ UNCHANGED <<carts, orders>>
     ELSE CreatePayment(Slot, c, TotalPrice(carts[c].cart_data))
  /\ UNCHANGED <<items, users, analytics, coin_views, buttons, poll, completions>>
  /\ skipped' = {}
  /\ UNCHANGED <<shop_status, paypal_handler>>
  /\ UNCHANGED <<evals, response, role_tiers, member_roles, giveaways, giveaway_entrants, manager,
                 giveaway_channel, tickets, status_update, channel_name>>

\* after the old invoice was cancelled: lines 262-287, with the total computed
\* from the row read before the cancellation
CheckoutCreate(t) ==
  /\ tasks[t].kind = "checkout" /\ tasks[t].pc = "create"
  /\ CreatePayment(t, tasks[t].cart, TotalPrice(tasks[t].snap.cart_data))
  /\ UNCHANGED <<items, users, analytics, coin_views, buttons, poll, completions>>
  /\ skipped' = {}
  /\ UNCHANGED <<shop_status, paypal_handler>>
  /\ UNCHANGED <<evals, response, role_tiers, member_roles, giveaways, giveaway_entrants, manager,
                 giveaway_channel, tickets, status_update, channel_name>>

\* create_payment returned (None, None): the handler reports the error and ends
CheckoutFail(t) ==
  /\ tasks[t].kind = "checkout" /\ tasks[t].pc = "create"
  /\ tasks' = [tasks EXCEPT ![t] = Idle]
  /\ UNCHANGED <<items, carts, users, analytics, orders, coin_views, buttons, poll,
                 completions>>
  /\ skipped' = {}
  /\ UNCHANGED <<shop_status, paypal_handler>>
  /\ UNCHANGED <<evals, response, role_tiers, member_roles, giveaways, giveaway_entrants, manager,
                 giveaway_channel, tickets, status_update, channel_name>>

\* the invoice message was sent: UPDATE carts SET invoice_message_id = %s
\* (line 297 for the hosted link, line 135 for a coin)
InvoicePosted(t) ==
  /\ tasks[t].pc = "invoice"
  /\ carts' = [carts EXCEPT ![tasks[t].cart].invoice_message_id =
       IF tasks[t].kind = "coin_select" THEN CryptoInvoice ELSE HostedInvoice]
  /\ buttons' = [buttons EXCEPT ![tasks[t].cart] =
       IF tasks[t].kind = "coin_select" THEN TRUE ELSE @]
  /\ tasks' = [tasks EXCEPT ![t] = Idle]
  /\ UNCHANGED <<items, users, analytics, orders, coin_views, poll, completions>>
  /\ skipped' = {}
  /\ UNCHANGED <<shop_status, paypal_handler>>
  /\ UNCHANGED <<evals, response, role_tiers, member_roles, giveaways, giveaway_entrants, manager,
                 giveaway_channel, tickets, status_update, channel_name>>

\* crypto_checkout: the same checks, then a CryptoCoinSelectionView is sent
crypto_checkout(c) ==
  /\ c \in CartIds /\ carts[c].message_id # 0
  /\ HasSlot
  /\ ~CheckoutRefused(carts[c])
  /\ ~ShopClosed
  /\ ~BelowMinimum(TotalPrice(carts[c].cart_data))
  /\ coin_views[c] < MaxViews
  /\ IF carts[c].invoice_message_id # 0
     THEN /\ tasks' = [tasks EXCEPT ![Slot] =
               [Idle EXCEPT !.kind = "crypto_checkout", !.pc = "cancel", !.next = "view",
                            !.cart = c]]
          /\ UNCHANGED coin_views
     ELSE /\ coin_views' = [coin_views EXCEPT ![c] = @ + 1]
          /\ UNCHANGED tasks
  /\ UNCHANGED <<items, carts, users, analytics, orders, buttons, poll, completions>>
  /\ skipped' = {}
  /\ UNCHANGED <<shop_status, paypal_handler>>
  /\ UNCHANGED <<evals, response, role_tiers, member_roles, giveaways, giveaway_entrants, manager,
                 giveaway_channel, tickets, status_update, channel_name>>

\* after the old invoice was cancelled: the selection view is sent (line 225)
CryptoCheckoutView(t) ==
  /\ tasks[t].kind = "crypto_checkout" /\ tasks[t].pc = "view"
  /\ coin_views' = [coin_views EXCEPT ![tasks[t].cart] = Min(@ + 1, MaxViews)]
  /\ tasks' = [tasks EXCEPT ![t] = Idle]
  /\ UNCHANGED <<items, carts, users, analytics, orders, buttons, poll, completions>>
  /\ skipped' = {}
  /\ UNCHANGED <<shop_status, paypal_handler>>
  /\ UNCHANGED <<evals, response, role_tiers, member_roles, giveaways, giveaway_entrants, manager,
                 giveaway_channel, tickets, status_update, channel_name>>

\* coin_select on an open view (price and wallet found): the UPDATE of lines
\* 108-111 on the cart the view was built for, whatever its status is now
coin_select(c) ==
  /\ c \in CartIds /\ coin_views[c] > 0
  /\ HasSlot
  /\ carts' = [carts EXCEPT ![c].payment_method = "crypto",
                            ![c].status = "pending_payment"]
  /\ coin_views' = [coin_views EXCEPT ![c] = @ - 1]
  /\ tasks' = [tasks EXCEPT ![Slot] =
       [Idle EXCEPT !.kind = "coin_select", !.pc = "invoice", !.cart = c]]
  /\ UNCHANGED <<items, users, analytics, orders, buttons, poll, completions>>
  /\ skipped' = {}
  /\ UNCHANGED <<shop_status, paypal_handler>>
  /\ UNCHANGED <<evals, response, role_tiers, member_roles, giveaways, giveaway_entrants, manager,
                 giveaway_channel, tickets, status_update, channel_name>>

\* "I Have Paid" on the cart's crypto invoice message
confirm_payment(c) ==
  /\ c \in CartIds
  /\ carts[c].invoice_message_id = CryptoInvoice /\ buttons[c]
  /\ carts' = [carts EXCEPT ![c].status = "pending_manual_verification"]
  /\ buttons' = [buttons EXCEPT ![c] = FALSE]
  /\ UNCHANGED <<items, users, analytics, orders, coin_views, tasks, poll, completions>>
  /\ skipped' = {}
  /\ UNCHANGED <<shop_status, paypal_handler>>
  /\ UNCHANGED <<evals, response, role_tiers, member_roles, giveaways, giveaway_entrants, manager,
                 giveaway_channel, tickets, status_update, channel_name>>

\* a completion that does not look at the cart's status
complete_crypto_order_any(c) ==
  /\ c \in CartIds
  /\ carts[c].channel_id # 0
  /\ process_paid_order(carts[c], 0)
  /\ UNCHANGED <<items, orders, coin_views, buttons, tasks, poll>>
  /\ Bounded'
  /\ skipped' = {}
  /\ UNCHANGED <<shop_status, paypal_handler>>
  /\ UNCHANGED <<response, role_tiers, member_roles, giveaways, giveaway_entrants, manager,
                 giveaway_channel, tickets, status_update, channel_name>>

\* ShopCog.complete_crypto_order(cart_id), after `await defer`: the row is read,
\* an unknown id, a status other than 'pending_manual_verification' or a
\* missing channel is answered with a message; otherwise process_paid_order
complete_crypto_order(c) ==
  /\ c \in CartIds
  /\ carts[c].status = "pending_manual_verification"
  /\ carts[c].channel_id # 0
  /\ process_paid_order(carts[c], 0)
  /\ UNCHANGED <<items, orders, coin_views, buttons, tasks, poll>>
  /\ Bounded'
  /\ skipped' = {}
  /\ UNCHANGED <<shop_status, paypal_handler>>
  /\ UNCHANGED <<response, role_tiers, member_roles, giveaways, giveaway_entrants, manager,
                 giveaway_channel, tickets, status_update, channel_name>>

\* ------------------------------------------------------------- the gateway
\* the buyer approves the order behind the payment link of a posted invoice
BuyerApproves(c) ==
  /\ c \in CartIds
  /\ carts[c].payment_id # 0 /\ carts[c].invoice_message_id = HostedInvoice
  /\ orders[carts[c].payment_id].status = "CREATED"
  /\ orders' = [orders EXCEPT ![carts[c].payment_id].status = "APPROVED"]
  /\ UNCHANGED <<items, carts, users, analytics, coin_views, buttons, tasks, poll, completions>>
  /\ skipped' = {}
  /\ UNCHANGED <<shop_status, paypal_handler>>
  /\ UNCHANGED <<evals, response, role_tiers, member_roles, giveaways, giveaway_entrants, manager,
                 giveaway_channel, tickets, status_update, channel_name>>

\* ------------------------------------------ ShopCog.check_pending_payments
\* SELECT * FROM carts WHERE status = 'pending_payment'
\*   AND payment_method = 'paypal' AND payment_id IS NOT NULL
IsPending(cart_data) ==
  /\ cart_data.status = "pending_payment"
  /\ cart_data.payment_method = "paypal"
  /\ cart_data.payment_id # 0

\* a SELECT that finds no cart to poll
pending_carts_none == SelectSeq(carts, LAMBDA cart_data : FALSE)

\* SELECT * FROM carts WHERE status = 'pending_payment' AND payment_method =
\* 'paypal' AND payment_id IS NOT NULL
pending_carts == SelectSeq(carts, IsPending)

Rest(list, k) == SubSeq(list, k + 1, Len(list))

AfterCart(list, k) ==
  IF Rest(list, k) = <<>> THEN [pc |-> "idle", list |-> <<>>, snap |-> NewCart(0, 0)]
  ELSE [pc |-> "next", list |-> Rest(list, k), snap |-> NewCart(0, 0)]

\* the loop captures every order, whatever its status is
ApprovedOrNot(order_details) == TRUE

\* `order_details.get('status') == 'APPROVED'`
Approved(order_details) == order_details.status = "APPROVED"

\* the statuses in which a cart waits for its payment
Pending == {"pending_payment", "pending_manual_verification"}

\* the carts before list[k] on which the tick may have called cancel_invoice
\* (order APPROVED, capture failed) with a row that holds no invoice message id:
\* the call returns at once, without an await, and the loop goes on
NoInvoice(list, k) ==
  {list[j].id : j \in {j \in 1..(k - 1) :
     /\ list[j].payment_id \in DOMAIN orders
     /\ Approved(orders[list[j].payment_id])
     /\ list[j].invoice_message_id = 0
     /\ carts[list[j].id].status \in Pending}}

\* the loop of lines 322-345 over the rows read at the start of the tick, up to
\* its next await: the carts before list[k] are passed over (order not approved,
\* the status query failed, or cancel_invoice returned at once), list[k]'s order
\* is APPROVED and is captured
PollFrom(list) ==
  \E k \in 1..Len(list) :
    /\ list[k].payment_id \in DOMAIN orders
    /\ Approved(orders[list[k].payment_id])
    /\ \E S \in SUBSET NoInvoice(list, k) : skipped' = S
    /\ \/ \* capture reports COMPLETED
          /\ orders' = [orders EXCEPT ![list[k].payment_id].status = "COMPLETED"]
          /\ process_paid_order(list[k], 0)
          /\ poll' = AfterCart(list, k)
       \/ \* capture fails: cancel_invoice(cart, channel, ...)
          /\ list[k].invoice_message_id # 0
          /\ poll' = [pc |-> "cancel", list |-> Rest(list, k), snap |-> list[k]]
          /\ UNCHANGED <<orders, users, carts, analytics, completions, evals>>

\* a tick starts
check_pending_payments ==
  /\ poll.pc = "idle"
  /\ PollFrom(pending_carts)
  /\ UNCHANGED <<items, coin_views, buttons, tasks>>
  /\ Bounded'
  /\ UNCHANGED <<shop_status, paypal_handler>>
  /\ UNCHANGED <<response, role_tiers, member_roles, giveaways, giveaway_entrants, manager,
                 giveaway_channel, tickets, status_update, channel_name>>

\* the tick goes on with the rows it read at its start
PollNext ==
  /\ poll.pc = "next"
  /\ \/ PollFrom(poll.list)
     \/ /\ poll' = [pc |-> "idle", list |-> <<>>, snap |-> NewCart(0, 0)]
        /\ \E S \in SUBSET NoInvoice(poll.list, Len(poll.list) + 1) : skipped' = S
        /\ UNCHANGED <<orders, users, carts, analytics, completions, evals>>
  /\ UNCHANGED <<items, coin_views, buttons, tasks>>
  /\ Bounded'
  /\ UNCHANGED <<shop_status, paypal_handler>>
  /\ UNCHANGED <<response, role_tiers, member_roles, giveaways, giveaway_entrants, manager,
                 giveaway_channel, tickets, status_update, channel_name>>

\* the tick resumes inside cancel_invoice
PollCancel ==
  /\ poll.pc = "cancel"
  /\ carts' = CancelUpdate(carts, poll.snap.id)
  /\ poll' = AfterCart(<<poll.snap>> \o poll.list, 1)
  /\ UNCHANGED <<items, users, analytics, orders, coin_views, buttons, tasks, completions>>
  /\ skipped' = {}
  /\ UNCHANGED <<shop_status, paypal_handler>>
  /\ UNCHANGED <<evals, response, role_tiers, member_roles, giveaways, giveaway_entrants, manager,
                 giveaway_channel, tickets, status_update, channel_name>>

\* ------------------------------------------------ process_webhook_payment
WebhookIgnored(cart_data) == cart_data.status \in {"paid", "completed", "closed"}

\* a push notification for cart c: "approved" for an order the gateway holds
\* approved, "failed" otherwise
process_webhook_payment(c, status) ==
  /\ c \in CartIds
  /\ ~WebhookIgnored(carts[c])
  /\ carts[c].channel_id # 0
  /\ \/ /\ status = "approved"
        /\ carts[c].payment_id # 0
        /\ orders[carts[c].payment_id].status = "APPROVED"
        /\ process_paid_order(carts[c], 0)
        /\ skipped' = {}
        /\ UNCHANGED tasks
     \/ /\ status = "failed"
        /\ carts[c].invoice_message_id # 0
        /\ HasSlot
        /\ tasks' = [tasks EXCEPT ![Slot] =
             [Idle EXCEPT !.kind = "webhook", !.pc = "cancel", !.cart = c, !.next = "done"]]
        /\ skipped' = {}
        /\ UNCHANGED <<users, carts, analytics, completions, evals>>
     \/ \* cancel_invoice returns at once: the row holds no invoice message id
        /\ status = "failed"
        /\ carts[c].invoice_message_id = 0
        /\ carts[c].status \in Pending
        /\ skipped' = {c}
        /\ UNCHANGED <<users, carts, analytics, completions, evals, tasks>>
  /\ UNCHANGED <<items, orders, coin_views, buttons, poll>>
  /\ Bounded'
  /\ UNCHANGED <<shop_status, paypal_handler>>
  /\ UNCHANGED <<response, role_tiers, member_roles, giveaways, giveaway_entrants, manager,
                 giveaway_channel, tickets, status_update, channel_name>>

\* ------------------------------------------------------------ PayPalPayment
\* what an HTTP request of the adapter can come back with: a well-formed reply,
\* a transport error (requests raises), an error status (raise_for_status
\* raises), a body that is not JSON, a JSON object without the fields it is read
\* for, JSON of another shape (a list, a null where a list is iterated)
Replies == {"ok", "transport", "http_error", "not_json", "no_field", "wrong_type"}

\* the replies the credential request can get: the gateway refuses the
\* "None:None" authorization that missing credentials are sent as
CredentialReplies(configured) ==
  IF configured THEN Replies ELSE {"transport", "http_error"}

\* response.json() on a body that is not JSON raises a JSONDecodeError, which is
\* a RequestException in some releases of the requests library and a plain
\* ValueError in others: caught (None) or not (raised)
NotJson == {"None", "raised"}

\* _get_access_token with a request that gets reply r: the token, None, or an
\* exception that is not a RequestException (the KeyError or TypeError of
\* token_data["access_token"] and token_data["expires_in"])
get_access_token(r) ==
  CASE r = "ok" -> {"token"}
    [] r \in {"transport", "http_error"} -> {"None"}
    [] r = "not_json" -> NotJson
    [] r \in {"no_field", "wrong_type"} -> {"raised"}

\* the try block of create_payment: a missing 'links', 'id' or approve link is a
\* KeyError or StopIteration, both caught; a TypeError is not
CreateResult(r) ==
  CASE r = "ok" -> {"value"}
    [] r \in {"transport", "http_error", "no_field"} -> {"None"}
    [] r = "not_json" -> NotJson
    [] r = "wrong_type" -> {"raised"}

\* the try block of get_payment_details and of capture_payment: whatever JSON
\* comes back is returned as it is
QueryResult(r) ==
  CASE r \in {"ok", "no_field", "wrong_type"} -> {"value"}
    [] r \in {"transport", "http_error"} -> {"None"}
    [] r = "not_json" -> NotJson

\* the adapter after one call of operation op: the access token (cached, or
\* requested and answered with cr), then, if there is a token, the order request
\* answered with r, on which the operation's try block gives one of `results`
AdapterCall(op, cr, r, results) ==
  IF paypal_handler.token
  THEN {[paypal_handler EXCEPT !.op = op, !.credential = "cached", !.reply = r,
                               !.result = res] : res \in results}
  ELSE IF cr \notin CredentialReplies(paypal_handler.configured) THEN {}
  ELSE UNION {IF tok = "token"
              THEN {[paypal_handler EXCEPT !.token = TRUE, !.op = op, !.credential = cr,
                                           !.reply = r, !.result = res] : res \in results}
              ELSE {[paypal_handler EXCEPT !.op = op, !.credential = cr,
                                           !.reply = "none", !.result = tok]}
              : tok \in get_access_token(cr)}

create_payment(cr, r) ==
  /\ paypal_handler' \in AdapterCall("create_payment", cr, r, CreateResult(r))
  /\ skipped' = {}
  /\ UNCHANGED <<items, carts, users, analytics, orders, coin_views, buttons, tasks, poll,
                 completions, shop_status>>
  /\ UNCHANGED <<evals, response, role_tiers, member_roles, giveaways, giveaway_entrants, manager,
                 giveaway_channel, tickets, status_update, channel_name>>

get_payment_details(cr, r) ==
  /\ paypal_handler' \in AdapterCall("get_payment_details", cr, r, QueryResult(r))
  /\ skipped' = {}
  /\ UNCHANGED <<items, carts, users, analytics, orders, coin_views, buttons, tasks, poll,
                 completions, shop_status>>
  /\ UNCHANGED <<evals, response, role_tiers, member_roles, giveaways, giveaway_entrants, manager,
                 giveaway_channel, tickets, status_update, channel_name>>

capture_payment(cr, r) ==
  /\ paypal_handler' \in AdapterCall("capture_payment", cr, r, QueryResult(r))
  /\ skipped' = {}
  /\ UNCHANGED <<items, carts, users, analytics, orders, coin_views, buttons, tasks, poll,
                 completions, shop_status>>
  /\ UNCHANGED <<evals, response, role_tiers, member_roles, giveaways, giveaway_entrants, manager,
                 giveaway_channel, tickets, status_update, channel_name>>

\* time passes: `time.time() < self._token_expires_at` no longer holds
TokenExpires ==
  /\ paypal_handler.token
  /\ paypal_handler' = [paypal_handler EXCEPT !.token = FALSE]
  /\ skipped' = {}
  /\ UNCHANGED <<items, carts, users, analytics, orders, coin_views, buttons, tasks, poll,
                 completions, shop_status>>
  /\ UNCHANGED <<evals, response, role_tiers, member_roles, giveaways, giveaway_entrants, manager,
                 giveaway_channel, tickets, status_update, channel_name>>

\* ------------------------------------------------------------ the catalog
\* /shop restock: UPDATE items SET quantity = quantity + %s WHERE id = %s
restock(i, quantity) ==
  /\ items' = [items EXCEPT ![i].quantity = @ + quantity]
  /\ skipped' = {}
  /\ UNCHANGED <<carts, users, analytics, orders, coin_views, buttons, tasks, poll,
                 completions>>
  /\ Bounded'
  /\ UNCHANGED <<shop_status, paypal_handler>>
  /\ UNCHANGED <<evals, response, role_tiers, member_roles, giveaways, giveaway_entrants, manager,
                 giveaway_channel, tickets, status_update, channel_name>>

\* the price column of an items row is changed in the store (the bot has no
\* command for it; the row is read again at every add)
price_edit(i, price) ==
  /\ items[i].price # price
  /\ items' = [items EXCEPT ![i].price = price]
  /\ skipped' = {}
  /\ UNCHANGED <<carts, users, analytics, orders, coin_views, buttons, tasks, poll,
                 completions>>
  /\ UNCHANGED <<shop_status, paypal_handler>>
  /\ UNCHANGED <<evals, response, role_tiers, member_roles, giveaways, giveaway_entrants, manager,
                 giveaway_channel, tickets, status_update, channel_name>>

\* ------------------------------------------------------------- the tickets
\* SELECT * FROM tickets WHERE user_id = %s AND status = 'open'
OpenTickets(u) == {k \in DOMAIN tickets : tickets[k].user_id = u /\ tickets[k].status = "open"}

\* TicketCreationView.open_ticket after its defer, up to
\* `await interaction.guild.create_text_channel(...)`: a user with an open
\* ticket is told so, any other waits for the channel
open_ticket(u) ==
  /\ u \in Users
  /\ OpenTickets(u) = {}
  /\ HasSlot
  /\ tasks' = [tasks EXCEPT ![Slot] =
       [Idle EXCEPT !.kind = "open_ticket", !.pc = "create_text_channel", !.agent = u]]
  /\ skipped' = {}
  /\ UNCHANGED <<items, carts, users, analytics, orders, coin_views, buttons, poll,
                 completions, shop_status, paypal_handler, response, role_tiers,
                 member_roles, evals, giveaways, giveaway_entrants, manager, giveaway_channel,
                 tickets, status_update, channel_name>>

\* the channel was created: INSERT INTO tickets (user_id, channel_id), the
\* status defaults to 'open'
TicketChannelCreated(t) ==
  /\ tasks[t].kind = "open_ticket" /\ tasks[t].pc = "create_text_channel"
  /\ Len(tickets) < MaxTickets
  /\ tickets' = Append(tickets, [user_id |-> tasks[t].agent, status |-> "open"])
  /\ tasks' = [tasks EXCEPT ![t] = Idle]
  /\ skipped' = {}
  /\ UNCHANGED <<items, carts, users, analytics, orders, coin_views, buttons, poll,
                 completions, shop_status, paypal_handler, response, role_tiers,
                 member_roles, evals, giveaways, giveaway_entrants, manager, giveaway_channel,
                 status_update, channel_name>>

\* TicketChannelView.close_ticket in the channel of ticket k, after its defer:
\* UPDATE tickets SET status = 'closed' WHERE channel_id = %s
close_ticket(k) ==
  /\ k \in DOMAIN tickets
  /\ tickets' = [tickets EXCEPT ![k].status = "closed"]
  /\ skipped' = {}
  /\ UNCHANGED <<items, carts, users, analytics, orders, coin_views, buttons, tasks, poll,
                 completions, shop_status, paypal_handler, response, role_tiers,
                 member_roles, evals, giveaways, giveaway_entrants, manager, giveaway_channel,
                 status_update, channel_name>>

\* ----------------------------------------------- ShopCog.complete_order
\* INSERT INTO users (id, delivery_value_handled) ... ON DUPLICATE KEY UPDATE
\*   delivery_value_handled = delivery_value_handled + %s
DeliveryUpsert(us, u, total_value) ==
  IF us[u].exists
  THEN [us EXCEPT ![u].delivery_value_handled = @ + total_value]
  ELSE [us EXCEPT ![u] = [exists |-> TRUE, balance |-> 0, lifetime_spent |-> 0,
                         delivery_value_handled |-> total_value]]

\* the row the command may act on
IsPaid(cart_data) == cart_data.status = "paid"

\* /shop completeorder by agent in the channel of cart c, up to
\* `await interaction.response.defer()`: the row is read and refused unless
\* its status is 'paid'
complete_order(c, agent) ==
  /\ c \in CartIds /\ agent \in Users
  /\ IsPaid(carts[c])
  /\ HasSlot
  /\ tasks' = [tasks EXCEPT ![Slot] =
       [Idle EXCEPT !.kind = "complete_order", !.pc = "defer", !.cart = c,
                    !.snap = carts[c], !.agent = agent]]
  /\ skipped' = {}
  /\ UNCHANGED <<items, carts, users, analytics, orders, coin_views, buttons, poll,
                 completions, shop_status, paypal_handler, response, role_tiers,
                 member_roles, evals, giveaways, giveaway_entrants, manager, giveaway_channel,
                 tickets, status_update, channel_name>>

\* the interaction was deferred: the total of the row read before the await is
\* added to the agent's delivery_value_handled; the cart's row is not written
CompleteOrderDeferred(t) ==
  /\ tasks[t].kind = "complete_order" /\ tasks[t].pc = "defer"
  /\ users' = DeliveryUpsert(users, tasks[t].agent, TotalPrice(tasks[t].snap.cart_data))
  /\ users'[tasks[t].agent].delivery_value_handled <= MaxDelivered
  /\ tasks' = [tasks EXCEPT ![t] = Idle]
  /\ skipped' = {}
  /\ UNCHANGED <<items, carts, analytics, orders, coin_views, buttons, poll,
                 completions, shop_status, paypal_handler, response, role_tiers,
                 member_roles, evals, giveaways, giveaway_entrants, manager, giveaway_channel,
                 tickets, status_update, channel_name>>

\* ------------------------------------------- the status channel's rename
\* ShopCog.__init__: the flag is down, the lock is free, nobody sleeps
NoUpdate == [scheduled |-> FALSE, sleeping |-> 0, waiting |-> 0, edit |-> "none"]

\* asyncio.Lock.acquire returns without suspending
LockFree == status_update.edit = "none" /\ status_update.waiting = 0

\* schedule_status_update up to `await asyncio.sleep(2)`
schedule_status_update ==
  IF status_update.scheduled THEN status_update
  ELSE [status_update EXCEPT !.scheduled = TRUE, !.sleeping = status_update.sleeping + 1]

\* update_shop_status_channel inside the lock, up to `await channel.edit`: su
\* is the cog's state as the coroutine enters; the name is compared with the
\* status read now and the edit carries the status read now
update_shop_status_channel(su) ==
  status_update' =
    [su EXCEPT !.scheduled = FALSE,
               !.edit = IF channel_name # shop_status THEN shop_status ELSE "none"]

\* /shop set_status: self.db.set_setting('shop_status', status), then
\* `await self.schedule_status_update()`
set_status(status) ==
  /\ shop_status' = status
  /\ status_update' = schedule_status_update
  /\ skipped' = {}
  /\ UNCHANGED <<items, carts, users, analytics, orders, coin_views, buttons, tasks, poll,
                 completions, paypal_handler>>
  /\ UNCHANGED <<evals, response, role_tiers, member_roles, giveaways, giveaway_entrants, manager,
                 giveaway_channel, tickets, channel_name>>

\* `await asyncio.sleep(2)` has returned and update_shop_status_channel is
\* entered: `async with self._status_update_lock` is passed at once when the
\* lock is free and nobody waits for it, otherwise the coroutine queues
SleepDone ==
  /\ status_update.sleeping > 0
  /\ IF LockFree
       THEN update_shop_status_channel(
              [status_update EXCEPT !.sleeping = status_update.sleeping - 1])
       ELSE status_update' = [status_update EXCEPT !.sleeping = status_update.sleeping - 1,
                                                  !.waiting = status_update.waiting + 1]
  /\ skipped' = {}
  /\ UNCHANGED <<items, carts, users, analytics, orders, coin_views, buttons, tasks, poll,
                 completions, shop_status, paypal_handler, response, role_tiers,
                 member_roles, evals, giveaways, giveaway_entrants, manager, giveaway_channel,
                 tickets, channel_name>>

\* the lock was released and its first waiter runs the body
LockAcquired ==
  /\ status_update.waiting > 0 /\ status_update.edit = "none"
  /\ update_shop_status_channel(
       [status_update EXCEPT !.waiting = status_update.waiting - 1])
  /\ skipped' = {}
  /\ UNCHANGED <<items, carts, users, analytics, orders, coin_views, buttons, tasks, poll,
                 completions, shop_status, paypal_handler, response, role_tiers,
                 member_roles, evals, giveaways, giveaway_entrants, manager, giveaway_channel,
                 tickets, channel_name>>

\* `await channel.edit(name=...)` has returned: the channel carries the name
\* and the lock is released
EditDone ==
  /\ status_update.edit # "none"
  /\ channel_name' = status_update.edit
  /\ status_update' = [status_update EXCEPT !.edit = "none"]
  /\ skipped' = {}
  /\ UNCHANGED <<items, carts, users, analytics, orders, coin_views, buttons, tasks, poll,
                 completions, shop_status, paypal_handler, response, role_tiers,
                 member_roles, evals, giveaways, giveaway_entrants, manager, giveaway_channel,
                 tickets>>

\* `await channel.edit(name=...)` has raised discord.Forbidden or
\* discord.HTTPException: `except ...: pass`, and the lock is released
EditRaises ==
  /\ status_update.edit # "none"
  /\ status_update' = [status_update EXCEPT !.edit = "none"]
  /\ skipped' = {}
  /\ UNCHANGED <<items, carts, users, analytics, orders, coin_views, buttons, tasks, poll,
                 completions, shop_status, paypal_handler, response, role_tiers,
                 member_roles, evals, giveaways, giveaway_entrants, manager, giveaway_channel,
                 tickets, channel_name>>

\* ------------------------------------------------------ the redirect pages
\* no page has been served yet
NoResponse == [page |-> "none", cart_id |-> 0]

\* a success page that also takes the redirect for the gateway's confirmation
success_handler_confirming(cart_id) ==
  /\ response' = [page |-> "payment-success.html", cart_id |-> cart_id]
  /\ carts' = MarkPaid(carts, cart_id)
  /\ skipped' = {}
  /\ UNCHANGED <<items, users, analytics, orders, coin_views, buttons, tasks, poll,
                 completions, shop_status, paypal_handler, role_tiers, member_roles, evals,
                 giveaways, giveaway_entrants, manager, giveaway_channel,
                 tickets, status_update, channel_name>>

\* GET /payment-success?cart_id=...: the query parameters are copied into the
\* page read from payment-success.html (cart_id 0: the parameter is absent)
generic_success_handler(cart_id) ==
  /\ response' = [page |-> "payment-success.html", cart_id |-> cart_id]
  /\ skipped' = {}
  /\ UNCHANGED <<items, carts, users, analytics, orders, coin_views, buttons, tasks, poll,
                 completions, shop_status, paypal_handler, role_tiers, member_roles, evals,
                 giveaways, giveaway_entrants, manager, giveaway_channel,
                 tickets, status_update, channel_name>>

\* GET /payment-cancel: the page read from payment-cancel.html
generic_cancel_handler ==
  /\ response' = [page |-> "payment-cancel.html", cart_id |-> 0]
  /\ skipped' = {}
  /\ UNCHANGED <<items, carts, users, analytics, orders, coin_views, buttons, tasks, poll,
                 completions, shop_status, paypal_handler, role_tiers, member_roles, evals,
                 giveaways, giveaway_entrants, manager, giveaway_channel,
                 tickets, status_update, channel_name>>

\* ---------------------------------------------------------------- giveaways
\* the loop between two ticks; `last` is what its last tick logged
Resting(last) == [pc |-> "idle", giveaway |-> 0, last |-> last]

\* SELECT * FROM giveaways WHERE status = 'active' ORDER BY id DESC LIMIT 1
\* (0: no row)
active_giveaway ==
  LET A == {g \in DOMAIN giveaways : giveaways[g].status = "active"}
  IN  IF A = {} THEN 0 ELSE CHOOSE g \in A : \A h \in A : h <= g

\* SELECT user_id FROM giveaway_entrants WHERE giveaway_id = %s
Entrants(g) ==
  {u \in Users : \E k \in DOMAIN giveaway_entrants : giveaway_entrants[k] = <<g, u>>}

\* an end of the giveaway that leaves its status as it is
EndedNot(gs, g) == gs

\* UPDATE giveaways SET status = 'ended' WHERE id = %s
Ended(gs, g) == [gs EXCEPT ![g].status = "ended"]

\* start_new_giveaway up to `await channel.send`: it returns at once if the
\* giveaway channel is not in the cache
start_new_giveaway ==
  manager' = IF giveaway_channel THEN [pc |-> "send", giveaway |-> 0, last |-> manager.last]
                                 ELSE Resting("no_channel")

\* a tick of giveaway_manager up to its first await: no active giveaway (a new
\* one is started), one whose end time has not passed, or one to end:
\* end_giveaway marks it ended and returns if the channel is not in the cache,
\* otherwise it draws the winner from the entrants and credits the prize
giveaway_manager ==
  /\ manager.pc = "idle"
  /\ LET g == active_giveaway
     IN  IF g = 0
         THEN /\ start_new_giveaway
              /\ UNCHANGED <<giveaways, users>>
         ELSE IF ~giveaways[g].expired
         THEN /\ manager' = Resting("waiting")
              /\ UNCHANGED <<giveaways, users>>
         ELSE IF ~giveaway_channel
         THEN /\ giveaways' = Ended(giveaways, g)
              /\ start_new_giveaway
              /\ UNCHANGED users
         ELSE /\ manager' = [pc |-> "announce", giveaway |-> g, last |-> manager.last]
              /\ IF Entrants(g) = {}
                 THEN UNCHANGED users
                 ELSE \E winner_id \in Entrants(g) :
                        users' = [users EXCEPT ![winner_id].exists = TRUE,
                                               ![winner_id].balance = @ + Prize]
              /\ UNCHANGED giveaways
  /\ skipped' = {}
  /\ UNCHANGED <<items, carts, analytics, orders, coin_views, buttons, tasks, poll,
                 completions, shop_status, paypal_handler, response, role_tiers,
                 member_roles, evals, giveaway_entrants, giveaway_channel,
                 tickets, status_update, channel_name>>

\* end_giveaway after its announcements: DELETE FROM giveaway_entrants, status
\* 'ended'; then start_new_giveaway up to its await
EndGiveawayDone ==
  /\ manager.pc = "announce"
  /\ giveaway_channel
  /\ giveaway_entrants' = SelectSeq(giveaway_entrants, LAMBDA e : e[1] # manager.giveaway)
  /\ giveaways' = Ended(giveaways, manager.giveaway)
  /\ start_new_giveaway
  /\ skipped' = {}
  /\ UNCHANGED <<items, carts, users, analytics, orders, coin_views, buttons, tasks, poll,
                 completions, shop_status, paypal_handler, response, role_tiers,
                 member_roles, evals, giveaway_channel, tickets, status_update, channel_name>>

\* start_new_giveaway after `await channel.send`: INSERT INTO giveaways
\* (message_id, end_time, status) with the end time 24 hours ahead
GiveawayPosted ==
  /\ manager.pc = "send"
  /\ giveaway_channel
  /\ Len(giveaways) < MaxGiveaways
  /\ giveaways' = Append(giveaways, [status |-> "active", expired |-> FALSE])
  /\ manager' = Resting("started")
  /\ skipped' = {}
  /\ UNCHANGED <<items, carts, users, analytics, orders, coin_views, buttons, tasks, poll,
                 completions, shop_status, paypal_handler, response, role_tiers,
                 member_roles, evals, giveaway_entrants, giveaway_channel,
                 tickets, status_update, channel_name>>

\* the channel was deleted while the tick was suspended: channel.send raises,
\* the exception leaves giveaway_manager and the loop stops
ManagerFails ==
  /\ manager.pc \in {"announce", "send"}
  /\ ~giveaway_channel
  /\ manager' = [pc |-> "stopped", giveaway |-> 0, last |-> "error"]
  /\ skipped' = {}
  /\ UNCHANGED <<items, carts, users, analytics, orders, coin_views, buttons, tasks, poll,
                 completions, shop_status, paypal_handler, response, role_tiers,
                 member_roles, evals, giveaways, giveaway_entrants, giveaway_channel,
                 tickets, status_update, channel_name>>

\* an entry that does not look for the user's row, into a table without the key
enter_giveaway_again(u) ==
  /\ giveaways # <<>>
  /\ giveaway_entrants' = Append(giveaway_entrants, <<Len(giveaways), u>>)
  /\ skipped' = {}
  /\ UNCHANGED <<items, carts, users, analytics, orders, coin_views, buttons, tasks, poll,
                 completions, shop_status, paypal_handler, response, role_tiers,
                 member_roles, evals, giveaways, manager, giveaway_channel,
                 tickets, status_update, channel_name>>

\* GiveawayView.enter_giveaway: the row with the largest id, whatever its
\* status; a user whose row is found is told so, any other is inserted (the
\* SELECT and the INSERT have no await between them)
enter_giveaway(u) ==
  /\ giveaways # <<>>
  /\ u \notin Entrants(Len(giveaways))
  /\ giveaway_entrants' = Append(giveaway_entrants, <<Len(giveaways), u>>)
  /\ skipped' = {}
  /\ UNCHANGED <<items, carts, users, analytics, orders, coin_views, buttons, tasks, poll,
                 completions, shop_status, paypal_handler, response, role_tiers,
                 member_roles, evals, giveaways, manager, giveaway_channel,
                 tickets, status_update, channel_name>>

\* time passes: `now > active_giveaway['end_time']` holds from now on
EndTimePasses(g) ==
  /\ g \in DOMAIN giveaways /\ ~giveaways[g].expired
  /\ giveaways' = [giveaways EXCEPT ![g].expired = TRUE]
  /\ skipped' = {}
  /\ UNCHANGED <<items, carts, users, analytics, orders, coin_views, buttons, tasks, poll,
                 completions, shop_status, paypal_handler, response, role_tiers,
                 member_roles, evals, giveaway_entrants, manager, giveaway_channel,
                 tickets, status_update, channel_name>>

\* the giveaway channel is deleted: get_channel returns None from now on
ChannelDeleted ==
  /\ giveaway_channel
  /\ giveaway_channel' = FALSE
  /\ skipped' = {}
  /\ UNCHANGED <<items, carts, users, analytics, orders, coin_views, buttons, tasks, poll,
                 completions, shop_status, paypal_handler, response, role_tiers,
                 member_roles, evals, giveaways, giveaway_entrants, manager, tickets,
                 status_update, channel_name>>

\* ------------------------------------------ check_and_apply_roles, resumed
\* `member = await guild.fetch_member(user_id)` has returned: member.roles is
\* what the member holds now; views.check_and_apply_roles reads role_tiers
\* here, DeliveryCog.check_and_apply_roles has read it before the await; then
\* the loop runs up to its first add_roles
MemberFetched(s) ==
  /\ s \in EvalSlots /\ evals[s].pc = "fetch_member"
  /\ \E rows \in (IF evals[s].version = "views" THEN TierRows(role_tiers)
                                                ELSE {evals[s].role_tiers}) :
       evals' = [evals EXCEPT ![s] =
         Advance([evals[s] EXCEPT !.role_tiers = rows,
                                  !.member = member_roles[evals[s].user_id]], 0)]
  /\ skipped' = {}
  /\ UNCHANGED <<items, carts, users, analytics, orders, coin_views, buttons, tasks, poll,
                 completions, shop_status, paypal_handler, response, role_tiers,
                 member_roles, giveaways, giveaway_entrants, manager, giveaway_channel,
                 tickets, status_update, channel_name>>

\* `await member.add_roles(role)` has returned: the member holds the role, and
\* the loop goes on to its next add_roles
RoleAdded(s) ==
  /\ s \in EvalSlots /\ evals[s].pc = "add_roles"
  /\ member_roles' = [member_roles EXCEPT ![evals[s].user_id] =
                        @ \cup {evals[s].role_tiers[evals[s].k].role_id}]
  /\ evals' = [evals EXCEPT ![s] = Advance(evals[s], evals[s].k)]
  /\ skipped' = {}
  /\ UNCHANGED <<items, carts, users, analytics, orders, coin_views, buttons, tasks, poll,
                 completions, shop_status, paypal_handler, response, role_tiers,
                 giveaways, giveaway_entrants, manager, giveaway_channel,
                 tickets, status_update, channel_name>>

\* DeliveryCog.on_member_join: the user joins the guild without a role;
\* DeliveryCog.check_and_apply_roles up to `await guild.fetch_member`
on_member_join(u) ==
  /\ u \notin DOMAIN member_roles
  /\ HasEvalSlot
  /\ member_roles' = [m \in DOMAIN member_roles \cup {u} |->
                        IF m = u THEN {} ELSE member_roles[m]]
  /\ \E rows \in TierRows(role_tiers) :
       evals' = [evals EXCEPT ![EvalSlot] =
         [NoEval EXCEPT !.version = "delivery", !.pc = "fetch_member", !.user_id = u,
                        !.lifetime_spent = IF users[u].exists THEN users[u].lifetime_spent
                                                               ELSE 0,
                        !.role_tiers = rows]]
  /\ skipped' = {}
  /\ UNCHANGED <<items, carts, users, analytics, orders, coin_views, buttons, tasks, poll,
                 completions, shop_status, paypal_handler, response, role_tiers,
                 giveaways, giveaway_entrants, manager, giveaway_channel,
                 tickets, status_update, channel_name>>

\* ------------------------------------------------------------ BuyerRolesCog
\* /buyerroles add: INSERT INTO role_tiers ... ON DUPLICATE KEY UPDATE amount_required
add_role(role, amount) ==
  /\ role_tiers[role] # amount
  /\ role_tiers' = [role_tiers EXCEPT ![role] = amount]
  /\ skipped' = {}
  /\ UNCHANGED <<items, carts, users, analytics, orders, coin_views, buttons, tasks, poll,
                 completions, shop_status, paypal_handler, response, member_roles, evals,
                 giveaways, giveaway_entrants, manager, giveaway_channel,
                 tickets, status_update, channel_name>>

\* a removal of the tier that also takes the role from every member
remove_role_revoking(role) ==
  /\ role_tiers[role] # NoTier
  /\ role_tiers' = [role_tiers EXCEPT ![role] = NoTier]
  /\ member_roles' = [m \in DOMAIN member_roles |-> member_roles[m] \ {role}]
  /\ skipped' = {}
  /\ UNCHANGED <<items, carts, users, analytics, orders, coin_views, buttons, tasks, poll,
                 completions, shop_status, paypal_handler, response, evals,
                 giveaways, giveaway_entrants, manager, giveaway_channel,
                 tickets, status_update, channel_name>>

\* /buyerroles remove: DELETE FROM role_tiers WHERE role_id = %s
remove_role(role) ==
  /\ role_tiers[role] # NoTier
  /\ role_tiers' = [role_tiers EXCEPT ![role] = NoTier]
  /\ skipped' = {}
  /\ UNCHANGED <<items, carts, users, analytics, orders, coin_views, buttons, tasks, poll,
                 completions, shop_status, paypal_handler, response, member_roles, evals,
                 giveaways, giveaway_entrants, manager, giveaway_channel,
                 tickets, status_update, channel_name>>

\* ------------------------------------------------------ the initial state
\* ------------------------------------------------------------------- Init
\* the state after construction, for runs of at most nc cart rows and nt
\* suspended handlers
InitStore(nc, nt) ==
  /\ items = [i \in Items |-> [quantity |-> InitStock, price |-> Price]]
  /\ carts = <<>>
  /\ users = [u \in Users |-> [exists |-> TRUE, balance |-> InitBalance, lifetime_spent |-> 0,
                           delivery_value_handled |-> 0]]
  /\ analytics = [p \in Users \X Items |-> 0]
  /\ orders = <<>>
  /\ coin_views = [c \in 1..nc |-> 0]
  /\ buttons = [c \in 1..nc |-> FALSE]
  /\ tasks = [t \in 1..nt |-> Idle]
  /\ poll = [pc |-> "idle", list |-> <<>>, snap |-> NewCart(0, 0)]
  /\ completions = [c \in 1..nc |-> 0]
  /\ shop_status = "open"
  /\ skipped = {}
  /\ response = NoResponse
  /\ role_tiers = [r \in Roles |-> NoTier]
  /\ evals = [s \in 1..MaxEvals |-> NoEval]
  /\ giveaways = <<>>
  /\ giveaway_entrants = <<>>
  /\ manager = Resting("start")
  /\ giveaway_channel = TRUE
  /\ tickets = <<>>
  /\ status_update = NoUpdate
  /\ channel_name = "open"

\* the store with the adapter at rest and no guild member whose roles are followed
InitWith(nc, nt) == InitStore(nc, nt) /\ paypal_handler = NoCall /\ member_roles = <<>>

\* ------------------------------------------------------ the specifications
\* add (B has TRUE) / remove (B has FALSE) by the buyers in U, of quantities
\* drawn from Q
CartSteps(U, Q, B) ==
  \/ \E u \in U, i \in Items, q \in Q, add \in B : handle_cart_action(u, i, q, add)
  \/ \E t \in Slots : CartActionChannel(t)
  \/ \E t \in Slots : CartActionRender(t)

CloseSteps ==
  \/ \E c \in DOMAIN completions : close_cart(c)
  \/ \E t \in Slots : CloseCartDone(t)

CreditSteps(A) ==
  \/ \E c \in DOMAIN completions, a \in A : apply_credit(c, a)
  \/ \E t \in Slots : ApplyCreditPaid(t)

CheckoutSteps ==
  \/ \E c \in DOMAIN completions : handle_checkout(c)
  \/ \E t \in Slots : CheckoutCreate(t)
  \/ \E t \in Slots : CheckoutFail(t)
  \/ \E t \in Slots : InvoicePosted(t)
  \/ \E c \in DOMAIN completions : cancel_transaction(c)
  \/ \E t \in Slots : CancelResume(t)

CryptoSteps ==
  \/ \E c \in DOMAIN completions : crypto_checkout(c)
  \/ \E t \in Slots : CryptoCheckoutView(t)
  \/ \E c \in DOMAIN completions : coin_select(c)
  \/ \E c \in DOMAIN completions : confirm_payment(c)
  \/ \E c \in DOMAIN completions : complete_crypto_order(c)

GatewaySteps ==
  \/ \E c \in DOMAIN completions : BuyerApproves(c)
  \/ check_pending_payments
  \/ PollCancel
  \/ \E c \in DOMAIN completions, st \in {"approved", "failed"} : process_webhook_payment(c, st)

StatusSteps ==
  \/ \E st \in {"open", "closed"} : set_status(st)
  \/ SleepDone
  \/ LockAcquired
  \/ EditDone
  \/ EditRaises

\* inventory: add / remove of any quantity and close, by two buyers, two
\* handlers in flight
InitShop == InitWith(MaxCarts, MaxTasks)
NextStock == CartSteps(Users, Quantities, BOOLEAN) \/ CloseSteps
SpecStock == InitShop /\ [][NextStock]_vars

\* store credit: one cart; add / remove of one unit, apply credit of any amount,
\* close; two handlers in flight
InitCredit == InitWith(1, MaxTasks)
NextCredit == CartSteps({1}, {1}, BOOLEAN) \/ CreditSteps(Amounts) \/ CloseSteps
SpecCredit == InitCredit /\ [][NextCredit]_vars

\* invoices: one cart; add, checkout by hosted link or by coin, cancel, confirm;
\* two handlers in flight
InitInvoice == InitWith(1, MaxTasks)
NextInvoice == CartSteps({1}, {1}, {TRUE}) \/ CheckoutSteps \/ CryptoSteps
SpecInvoice == InitInvoice /\ [][NextInvoice]_vars

\* payments: one buyer, two carts, one handler suspended at a time beside the
\* payment loop; hosted checkout, the gateway, the poll and the webhook
InitPay == InitWith(MaxCarts, 1)
NextPay == CartSteps({1}, {1}, BOOLEAN) \/ CheckoutSteps \/ GatewaySteps \/ PollNext
SpecPay == InitPay /\ [][NextPay]_vars

CatalogSteps ==
  \/ \E i \in Items, q \in 1..MaxRestock : restock(i, q)
  \/ \E i \in Items, p \in 1..MaxPrice : price_edit(i, p)

\* the catalog: one cart; add / remove of one unit while the item is restocked
\* and its price is changed; one handler suspended at a time
InitCatalog == InitWith(1, 1)
NextCatalog == CartSteps({1}, {1}, BOOLEAN) \/ CatalogSteps
SpecCatalog == InitCatalog /\ [][NextCatalog]_vars

\* opening hours: one cart; add / remove, checkout by hosted link or by coin,
\* cancel, while the shop is opened and closed; one handler suspended at a time
InitHours == InitWith(1, 1)
NextHours == CartSteps({1}, {1}, BOOLEAN) \/ CheckoutSteps \/ CryptoSteps \/ StatusSteps
SpecHours == InitHours /\ [][NextHours]_vars

AdapterSteps ==
  \/ \E cr \in Replies, r \in Replies : create_payment(cr, r)
  \/ \E cr \in Replies, r \in Replies : get_payment_details(cr, r)
  \/ \E cr \in Replies, r \in Replies : capture_payment(cr, r)
  \/ TokenExpires

\* the hosted-link adapter alone, with and without credentials, against every
\* reply of the gateway
InitAdapter == InitStore(1, 1) /\ paypal_handler \in {Adapter(TRUE), Adapter(FALSE)}
                 /\ member_roles = <<>>
NextAdapter == AdapterSteps
SpecAdapter == InitAdapter /\ [][NextAdapter]_vars

RoleSteps ==
  \/ \E s \in EvalSlots : MemberFetched(s)
  \/ \E s \in EvalSlots : RoleAdded(s)
  \/ \E u \in Users : on_member_join(u)
  \/ \E r \in Roles, a \in {0, MaxRequired} : add_role(r, a)
  \/ \E r \in Roles : remove_role(r)

\* the invoice message of a checkout is posted, an old invoice is cancelled
InvoiceSteps ==
  \/ \E t \in Slots : InvoicePosted(t)
  \/ \E t \in Slots : CancelResume(t)

\* buyer roles: one cart of a buyer who is a member of the guild; add, pay by
\* coin, close; the tiers are edited, a second user joins
InitRoles == InitStore(1, 1) /\ paypal_handler = NoCall /\ member_roles = [u \in {1} |-> {}]
NextRoles == CartSteps({1}, {1}, {TRUE}) \/ CryptoSteps \/ InvoiceSteps \/ CloseSteps
               \/ RoleSteps
SpecRoles == InitRoles /\ [][NextRoles]_vars

RedirectSteps ==
  \/ \E c \in 0..MaxCarts : generic_success_handler(c)
  \/ generic_cancel_handler

\* redirects: one cart from the first add to its payment, by credit or by
\* hosted link, and the pages the buyer's browser is sent to
InitRedirect == InitWith(1, 1)
NextRedirect == CartSteps({1}, {1}, {TRUE}) \/ CreditSteps({1, 2}) \/ CheckoutSteps
                  \/ GatewaySteps \/ RedirectSteps
SpecRedirect == InitRedirect /\ [][NextRedirect]_vars

GiveawaySteps ==
  \/ giveaway_manager
  \/ EndGiveawayDone
  \/ GiveawayPosted
  \/ ManagerFails
  \/ \E u \in Users : enter_giveaway(u)
  \/ \E g \in 1..MaxGiveaways : EndTimePasses(g)
  \/ ChannelDeleted

\* giveaways: the manager loop, the entries of two users, the passing of the
\* end times and the loss of the channel
InitGiveaway == InitWith(1, 1)
NextGiveaway == GiveawaySteps
SpecGiveaway == InitGiveaway /\ [][NextGiveaway]_vars

SettleSteps ==
  \/ \E c \in DOMAIN completions : handle_checkout(c)
  \/ \E t \in Slots : InvoicePosted(t)
  \/ \E c \in DOMAIN completions : BuyerApproves(c)
  \/ check_pending_payments
  \/ PollNext
  \/ PollCancel

\* the 15-second loop keeps running: a tick that can act on an approved order
\* is not put off for ever, and a suspended tick resumes
FairPoll == WF_vars(check_pending_payments) /\ WF_vars(PollNext) /\ WF_vars(PollCancel)

\* settlement by the payment loop: two carts, add, hosted checkout, approval at
\* the gateway, the loop with both outcomes of a capture; no cancellation by
\* the buyer
InitSettle == InitWith(MaxCarts, 1)
NextSettle == CartSteps({1}, {1}, BOOLEAN) \/ SettleSteps
SpecSettle == InitSettle /\ [][NextSettle]_vars /\ FairPoll

\* settlement: one cart from the first add to its payment, by credit or by
\* hosted link; one handler suspended at a time beside the payment loop
Init == InitWith(1, 1)
Next == CartSteps({1}, {1}, {TRUE}) \/ CreditSteps({1, 2}) \/ CheckoutSteps \/ GatewaySteps
Spec == Init /\ [][Next]_vars
DeliverSteps ==
  \/ \E c \in DOMAIN completions, agent \in Users : complete_order(c, agent)
  \/ \E t \in Slots : CompleteOrderDeferred(t)

\* deliveries: one cart paid by store credit, two agents, two commands in
\* flight
InitDeliver == InitWith(1, MaxTasks)
NextDeliver == CartSteps({1}, {1}, {TRUE}) \/ CreditSteps({Price}) \/ DeliverSteps
SpecDeliver == InitDeliver /\ [][NextDeliver]_vars

TicketSteps ==
  \/ \E u \in Users : open_ticket(u)
  \/ \E t \in Slots : TicketChannelCreated(t)
  \/ \E k \in 1..MaxTickets : close_ticket(k)

\* tickets: two users open and close tickets, two handlers in flight
InitTickets == InitWith(1, MaxTasks)
NextTickets == TicketSteps
SpecTickets == InitTickets /\ [][NextTickets]_vars

\* the event loop runs a coroutine that can run: the sleep ends, the lock is
\* handed on, the request of the edit returns
FairUpdate == WF_vars(SleepDone) /\ WF_vars(LockAcquired) /\ WF_vars(EditDone)

\* the status channel: the status is set at any time, one cart is filled and
\* emptied beside it
InitStatus == InitWith(1, 1)
NextStatus == CartSteps({1}, {1}, BOOLEAN) \/ StatusSteps
SpecStatus == InitStatus /\ [][NextStatus]_vars /\ FairUpdate

\* ------------------------------------------------------------ properties
Owner(c) == carts[c].user_id
Completes(c) == completions'[c] > completions[c]
NonTerminal == {"active", "pending_payment", "pending_manual_verification"}
Quiescent == \A t \in Slots : tasks[t].kind = "idle"

RECURSIVE SumOf(_, _)
SumOf(f, S) ==
  IF S = {} THEN 0
  ELSE LET x == CHOOSE y \in S : TRUE IN f[x] + SumOf(f, S \ {x})

\* quantity of item i held by the carts that are not closed
Held(i) ==
  SumOf([c \in CartIds |->
           IF i \in DOMAIN carts[c].cart_data THEN carts[c].cart_data[i].quantity ELSE 0],
        {c \in CartIds : carts[c].status # "closed"})

\* the payments of cart c the gateway holds as confirmed (approved or captured)
Confirmed(c) ==
  {p \in DOMAIN orders : orders[p].cart = c /\ orders[p].status \in {"APPROVED", "COMPLETED"}}

\* cart c is active with its payment fields cleared, in the state after the step
Reopened(c) ==
  /\ carts'[c].status = "active"
  /\ carts'[c].payment_id = 0
  /\ carts'[c].payment_method = "NULL"
  /\ carts'[c].invoice_message_id = 0

\* a cancel_invoice call on cart c returns in this step: after its UPDATE, or
\* at once because the row it was given holds no invoice message id
CancelReturns(c) ==
  \/ \E t \in Slots : CancelResume(t) /\ tasks[t].cart = c
  \/ PollCancel /\ poll.snap.id = c
  \/ c \in skipped'

\* a step of a checkout of cart c, by hosted link or by coin
CheckoutStep(c) ==
  \/ handle_checkout(c)
  \/ \E t \in Slots : CheckoutCreate(t) /\ tasks[t].cart = c
  \/ crypto_checkout(c)
  \/ coin_select(c)

\* a step of the payment loop
PollStep == check_pending_payments \/ PollNext \/ PollCancel

\* C1: process_paid_order is idempotent: a run of it on a cart that an earlier
\* run has completed and that is still paid leaves lifetime_spent and the
\* purchase events as they are, and the cart paid.
C1_PaidOrderIdempotent ==
  [][\A c \in CartIds :
       (completions[c] >= 1 /\ carts[c].status = "paid" /\ Completes(c)) =>
         /\ users' = users
         /\ analytics' = analytics
         /\ carts'[c].status = "paid"]_vars

\* C2: a confirmed payment that the poll tick and the webhook both observe
\* completes its cart once: a cart is never completed more often than the gateway
\* holds confirmed payments for it.
C2_PaymentCountedOnce == \A c \in CartIds : completions[c] <= Cardinality(Confirmed(c))

\* C3: no cart is active with a non-null invoice_message_id.
C3_NoActiveInvoice ==
  \A c \in CartIds : ~(carts[c].status = "active" /\ carts[c].invoice_message_id # 0)

\* C4: a user has at most one cart that is active, pending_payment or
\* pending_manual_verification.
C4_OneOpenCart ==
  \A u \in Users :
    Cardinality({c \in CartIds : Owner(c) = u /\ carts[c].status \in NonTerminal}) <= 1

\* C5: stock conservation: when no handler is in flight, an item's quantity on
\* hand is its initial quantity minus the quantity held by the carts that are
\* not closed.
C5_StockConserved ==
  Quiescent => \A i \in Items : items[i].quantity = InitStock - Held(i)

\* C6: the quantity on hand of an item is never negative.
C6_StockNonNegative == \A i \in Items : items[i].quantity >= 0

\* C7: applying credit never makes a balance negative, and an application of
\* more than the balance changes neither the balance nor the cart.
C7_CreditWithinBalance ==
  /\ [](\A u \in Users : users[u].balance >= 0)
  /\ [][\A c \in CartIds, a \in Amounts :
          (apply_credit(c, a) /\ a > users[Owner(c)].balance) =>
            (users' = users /\ carts' = carts)]_vars

\* C7 witness: credit was applied to a cart until its owner's balance is used up,
\* so that every further positive amount is more than the balance
C7_BalanceUsedUp ==
  \E c \in CartIds : /\ carts[c].credit_applied = InitBalance
                     /\ users[Owner(c)].balance = 0
                     /\ carts[c].message_id # 0

\* C8: the cumulative credit_applied of a cart never exceeds the cart's total.
C8_CreditWithinTotal ==
  \A c \in CartIds : carts[c].credit_applied <= TotalPrice(carts[c].cart_data)

\* C9: a completion of a cart (whose credit_applied is within its total) raises
\* the buyer's lifetime_spent by the cart's total minus its cumulative
\* credit_applied, and no other step changes lifetime_spent.
C9_LifetimeByRealMoney ==
  [][/\ \A c \in CartIds :
          (Completes(c) /\ carts[c].credit_applied <= TotalPrice(carts[c].cart_data)) =>
            users'[Owner(c)].lifetime_spent =
              users[Owner(c)].lifetime_spent
                + TotalPrice(carts[c].cart_data) - carts[c].credit_applied
     /\ completions' = completions =>
          \A u \in Users : users'[u].lifetime_spent = users[u].lifetime_spent]_vars

\* C10: an application of credit that brings the outstanding total (total minus
\* cumulative credit_applied) to zero starts the completion in that same handler.
C10_FullCreditCompletes ==
  [][\A c \in CartIds, a \in Amounts :
       (/\ apply_credit(c, a)
        /\ carts'[c].credit_applied # carts[c].credit_applied
        /\ TotalPrice(carts[c].cart_data) - carts'[c].credit_applied <= 0) =>
         \E t \in Slots : /\ tasks[t].kind = "idle"
                          /\ tasks'[t].kind = "apply_credit"
                          /\ tasks'[t].cart = c]_vars

\* C12: cancellation is guarded by the cart's status: a cart that is paid,
\* completed or closed is never set back to active.
C12_PaidStaysPaid ==
  [][\A c \in CartIds :
       carts[c].status \in {"paid", "completed", "closed"} =>
         carts'[c].status # "active"]_vars

\* C13: an add or remove (one that passes the stock check) by a user whose
\* non-terminal cart carries an invoice first cancels that invoice: the handler
\* goes into cancel_invoice on that cart before it changes the contents.
C13_EditCancelsInvoice ==
  [][\A u \in Users, i \in Items, q \in Quantities, add \in BOOLEAN, c \in CartIds :
       (/\ handle_cart_action(u, i, q, add)
        /\ ~(add /\ InsufficientStock(items[i].quantity, q))
        /\ Owner(c) = u
        /\ carts[c].status \in NonTerminal
        /\ carts[c].invoice_message_id # 0) =>
         \E t \in Slots : tasks'[t].pc = "cancel" /\ tasks'[t].cart = c]_vars

\* C14: an invoice is issued for a cart only after the cart's earlier invoice
\* was invalidated: when an invoice message id is recorded, the cart holds none.
C14_OneInvoicePerCart ==
  [][\A t \in Slots :
       InvoicePosted(t) => carts[tasks[t].cart].invoice_message_id = 0]_vars

\* C17: an add of a quantity that exceeds the quantity on hand is rejected
\* without any mutation: no cart row is created, stock and carts stay as they are.
C17_RejectedAddMutatesNothing ==
  [][\A u \in Users, i \in Items, q \in Quantities :
       (handle_cart_action(u, i, q, TRUE) /\ InsufficientStock(items[i].quantity, q)) =>
         (carts' = carts /\ items' = items)]_vars

\* C11: a cancel_invoice call on a cart that is pending_payment or
\* pending_manual_verification leaves the cart active with payment_id,
\* payment_method and invoice_message_id null, whether or not an invoice message
\* id had been recorded.
C11_CancelReopens ==
  [][\A c \in CartIds :
       (carts[c].status \in Pending /\ CancelReturns(c)) => Reopened(c)]_vars

\* C18: in a tick of the payment loop, a cart whose approved order is captured
\* becomes paid, and a cart whose approved order fails to capture has its invoice
\* cancelled: it is active with its payment fields cleared.
C18_PollSettles ==
  [][PollStep =>
       \A c \in CartIds :
         /\ Completes(c) => carts'[c].status = "paid"
         /\ (PollCancel /\ poll.snap.id = c) => Reopened(c)
         /\ c \in skipped' => Reopened(c)]_vars

\* C19: a tick of the payment loop leaves a cart exactly as it is unless the
\* gateway holds an approved order of that cart: a failed status query and a
\* status other than APPROVED change nothing.
C19_PollLeavesUnapproved ==
  [][\A c \in CartIds :
       (PollStep /\ carts'[c] # carts[c]) =>
         \E p \in DOMAIN orders : orders[p].cart = c /\ orders[p].status = "APPROVED"]_vars

\* C19 witness: the tick has passed over cart 1, pending on an order that is not
\* approved, and is handling cart 2, whose order was created later
C19_PassedOver ==
  /\ poll.pc = "cancel" /\ poll.snap.id = 2
  /\ Len(carts) = 2 /\ IsPending(carts[1])
  /\ carts[1].invoice_message_id = HostedInvoice
  /\ carts[1].payment_id < poll.snap.payment_id
  /\ orders[carts[1].payment_id].status = "CREATED"

\* C15: a checkout (by hosted link or by coin) of a cart whose total is below the
\* purchase minimum, an empty cart included, leaves the cart's status, payment_id,
\* payment_method and invoice_message_id as they are.
C15_MinimumEnforced ==
  [][\A c \in CartIds :
       (TotalPrice(carts[c].cart_data) < PurchaseMinimum /\ CheckoutStep(c)) =>
         /\ carts'[c].status = carts[c].status
         /\ carts'[c].payment_id = carts[c].payment_id
         /\ carts'[c].payment_method = carts[c].payment_method
         /\ carts'[c].invoice_message_id = carts[c].invoice_message_id]_vars

\* C16: a cart goes from active to pending_payment only while the shop is open,
\* unless the cart already holds a payment reference.
C16_ClosedShopNoCheckout ==
  [][\A c \in CartIds :
       (carts[c].status = "active" /\ carts'[c].status = "pending_payment") =>
         (shop_status = "open" \/ carts[c].payment_id # 0)]_vars

\* C20: every operation of the hosted-link adapter gives back its failure value
\* and raises nothing when the credential request or the order request fails:
\* transport error, missing credential, malformed response.
C20_AdapterNeverRaises ==
  /\ paypal_handler.result # "raised"
  /\ (\/ paypal_handler.credential \in Replies \ {"ok"}
      \/ paypal_handler.reply \in Replies \ {"ok"}) => paypal_handler.result = "None"

\* units of item i in the cart payload of cart c
Units(c, i) ==
  IF i \in DOMAIN carts[c].cart_data THEN carts[c].cart_data[i].quantity ELSE 0

C22_ChargesPayableTotal ==
  [][Len(orders') > Len(orders) =>
       LET p == Len(orders')
           c == orders'[p].cart
       IN  orders'[p].amount = TotalPrice(carts[c].cart_data) - carts[c].credit_applied]_vars

\* C27: a change of an item's catalog price never changes the unit price
\* recorded in a cart for the units it already holds, whatever is added to or
\* removed from the cart afterwards.
C27_PriceSnapshotKept ==
  [][\A c \in CartIds, i \in Items :
       (i \in DOMAIN carts[c].cart_data /\ i \in DOMAIN carts'[c].cart_data) =>
         carts'[c].cart_data[i].price = carts[c].cart_data[i].price]_vars


\* C29: a cart's status becomes closed only from active; closing a cart in any
\* other status restores no stock, refunds no credit and leaves the status as
\* it was.
C29_CloseOnlyFromActive ==
  /\ [][\A c \in CartIds :
          (close_cart(c) /\ carts[c].status # "active") =>
            (items' = items /\ users' = users)]_vars
  /\ [][\A c \in CartIds :
          (carts'[c].status = "closed" /\ carts[c].status # "closed") =>
            carts[c].status = "active"]_vars


\* C30: the buyer's "I Have Paid" confirmation sets the cart to
\* pending_manual_verification only if the cart is pending_payment with the
\* crypto method; in every other case the cart is left unchanged.
C30_ConfirmOnlyPendingCrypto ==
  [][\A c \in CartIds :
       (confirm_payment(c) /\
          ~(carts[c].status = "pending_payment" /\ carts[c].payment_method = "crypto")) =>
         carts'[c] = carts[c]]_vars


\* the rows of role_tiers the call suspended in slot s has read, or reads in
\* the step it resumes with
TiersRead(s) ==
  IF evals[s].pc = "fetch_member" /\ evals[s].version = "views"
  THEN {[role_id |-> r, amount_required |-> role_tiers[r]] : r \in Configured(role_tiers)}
  ELSE {evals[s].role_tiers[k] : k \in DOMAIN evals[s].role_tiers}

\* C23: when a role-tier evaluation (after an order completion, or on guild
\* join) returns, the user holds the role of every tier the evaluation read
\* whose threshold is less than or equal to the lifetime spend it read: all
\* qualifying tiers, not only the highest one.
C23_AllQualifyingTiers ==
  [][\A s \in EvalSlots :
       (evals[s].pc # "idle" /\ evals'[s].pc = "idle") =>
         \A tier \in TiersRead(s) :
           tier.amount_required <= evals[s].lifetime_spent =>
             tier.role_id \in member_roles'[evals[s].user_id]]_vars

\* a buyer whose lifetime spend meets two tiers of different thresholds holds
\* both roles once the evaluation has returned
C23_HoldsBothTiers ==
  /\ role_tiers[1] = 0 /\ role_tiers[2] = MaxRequired
  /\ users[1].lifetime_spent = MaxRequired
  /\ member_roles[1] = {1, 2}
  /\ \A s \in EvalSlots : evals[s] = NoEval

\* C24: role grants are monotonic: no step of the system (a later completion, a
\* cart closure, a change of the tier list, a re-evaluation) takes a role from
\* a member who holds it.
C24_GrantsMonotonic ==
  [][\A u \in DOMAIN member_roles : member_roles[u] \subseteq member_roles'[u]]_vars

\* a member still holds a role whose tier has been removed, and the cart is closed
C24_RoleOutlivesTier ==
  \E r \in Roles, c \in CartIds :
    /\ r \in member_roles[Owner(c)]
    /\ role_tiers[r] = NoTier
    /\ carts[c].status = "closed"


\* C25: at most one giveaway has status active at any time, across any
\* sequence of manager ticks, the ticks in which the giveaway channel cannot be
\* found included.
C25_OneActiveGiveaway ==
  Cardinality({g \in DOMAIN giveaways : giveaways[g].status = "active"}) <= 1

\* the giveaways have rotated once, and a tick that did not find the channel
\* has ended the second one
C25_EndedWithoutChannel ==
  /\ manager.last = "no_channel"
  /\ Len(giveaways) = 2
  /\ \A g \in DOMAIN giveaways : giveaways[g].status = "ended"

\* C26: when the manager ends an expired giveaway that has at least one
\* entrant, exactly one of its entrants has the balance increased by the prize,
\* once; afterwards the giveaway has no entrant and is ended, and a new
\* giveaway is being started in the same tick.
C26_EndPaysOneAndRotates ==
  /\ [][(/\ giveaway_manager
         /\ active_giveaway # 0
         /\ giveaways[active_giveaway].expired
         /\ Entrants(active_giveaway) # {}) =>
          \E w \in Entrants(active_giveaway) :
            /\ users'[w].balance = users[w].balance + Prize
            /\ \A u \in Users \ {w} : users'[u] = users[u]]_vars
  /\ [][\A g \in DOMAIN giveaways :
          (/\ giveaways[g].status = "active" /\ giveaways'[g].status = "ended"
           /\ Entrants(g) # {}) =>
            /\ \A k \in DOMAIN giveaway_entrants' : giveaway_entrants'[k][1] # g
            /\ manager'.pc = "send"]_vars


\* C28: the payment-success and payment-cancel redirect handlers change no
\* cart, user or item state, for any query parameters and in any cart status.
C28_RedirectsChangeNothing ==
  [][((\E c \in 0..MaxCarts : generic_success_handler(c)) \/ generic_cancel_handler) =>
       UNCHANGED <<carts, users, items>>]_vars

\* the success page was served for a cart that is waiting for its payment
C28_SuccessPageWhilePending ==
  /\ response.page = "payment-success.html"
  /\ response.cart_id \in CartIds
  /\ carts[response.cart_id].status = "pending_payment"


\* C31: a step of the payment loop changes a cart only if, at that moment, the
\* cart is in pending_payment with the hosted-link method and a payment
\* reference; every other cart (a crypto cart, a cart that became active, paid
\* or closed after the tick read its list) is left unchanged by the tick.
C31_PollTouchesPendingOnly ==
  [][\A c \in CartIds :
       (PollStep /\ carts'[c] # carts[c]) => IsPending(carts[c])]_vars


\* cart c waits in pending_payment with the hosted-link method, a channel, and
\* an order the gateway holds approved
WaitsApproved(c) ==
  /\ c \in CartIds
  /\ IsPending(carts[c])
  /\ carts[c].channel_id # 0
  /\ carts[c].payment_id \in DOMAIN orders
  /\ Approved(orders[carts[c].payment_id])

\* the capture of cart c's order has failed: the tick is cancelling its invoice
CaptureFailed(c) == poll.pc = "cancel" /\ poll.snap.id = c

C33_LinesAtLeastOne ==
  \A c \in CartIds : \A i \in DOMAIN carts[c].cart_data :
    carts[c].cart_data[i].quantity >= 1

\* C34: the delivery completion command takes effect only on a paid cart and
\* adds the cart's total to the agents' delivery-value ledger at most once per
\* cart, however often it is invoked: the value the agents have been credited
\* with never exceeds the totals of the carts.
Delivered == SumOf([u \in Users |-> users[u].delivery_value_handled], Users)
C34_DeliveredOncePerCart ==
  Delivered <= SumOf([c \in CartIds |-> TotalPrice(carts[c].cart_data)], CartIds)

CreditIn(u, S) ==
  SumOf([c \in CartIds |-> IF Owner(c) = u /\ carts[c].status \in S
                           THEN carts[c].credit_applied ELSE 0], CartIds)
C36_CreditConserved ==
  Quiescent => \A u \in Users :
    users[u].balance + CreditIn(u, NonTerminal) = InitBalance - CreditIn(u, {"paid"})

\* C37: the payment fields agree with the status in every reachable state: an
\* active cart has no payment id and no payment method, and a cart waiting for
\* a hosted-link payment has a payment id.
C37_PaymentFieldsCoherent ==
  \A c \in CartIds :
    /\ carts[c].status = "active" =>
         carts[c].payment_id = 0 /\ carts[c].payment_method = "NULL"
    /\ (carts[c].status = "pending_payment" /\ carts[c].payment_method = "paypal") =>
         carts[c].payment_id # 0

\* a hosted-link invoice was cancelled and the cart is active again while
\* another checkout of the cart is in flight
C37_ReopenedDuringCheckout ==
  /\ Len(carts) = 1 /\ carts[1].status = "active" /\ Len(orders) >= 1
  /\ \E t \in Slots : tasks[t].kind = "checkout"

\* C38: at most one ticket with status open exists per user at any time, for
\* any interleaving of open-ticket actions by the same user.
C38_OneOpenTicketPerUser ==
  \A u \in Users : Cardinality(OpenTickets(u)) <= 1

\* C39: each user appears at most once among the entrants of any giveaway,
\* after any sequence of entries and rotations of the giveaway.
C39_OneEntryPerUser ==
  \A j, k \in DOMAIN giveaway_entrants : giveaway_entrants[j] = giveaway_entrants[k] => j = k

\* both users have entered the second giveaway after the first was ended
C39_BothEnteredAfterRotation ==
  /\ Len(giveaways) >= 2 /\ giveaways[1].status = "ended"
  /\ Entrants(Len(giveaways)) = Users /\ Len(giveaway_entrants) = NumUsers

\* C40: the debounced update of the status channel loses no change: at most
\* one delayed update is pending at a time, and a channel name that differs
\* from the shop status is eventually followed by one that equals it.
PendingUpdates == status_update.sleeping + status_update.waiting
C40_OnePending == PendingUpdates <= 1
C40_NameFollowsStatus ==
  /\ []C40_OnePending
  /\ (channel_name # shop_status) ~> (channel_name = shop_status)

====
